---- MODULE Spec2Model ----
(***************************************************************************)
(* Model of layerzero/trader.py: LayerzeroTrader.run, the per-wallet      *)
(* withdrawal orchestrator, with AptosBridge, AptosNode.send_transaction  *)
(* and CsvFileReaderWithCheck.check.                                       *)
(*                                                                         *)
(* One action is one blocking call (or one branch) of run().  Every call  *)
(* to a chain client either returns or raises; a raise inside the loop    *)
(* body lands in the `except Exception` of line 228.                      *)
(*                                                                         *)
(* Units.  TLC integers are 32 bit, so ether amounts are counted in       *)
(* hundredths of an ether (random_float(..., diff=2)) and wei in units of *)
(* 10^15 wei; Web3.to_wei(amount, 'ether') is then a multiplication by    *)
(* WeiPerAmountUnit.  Octas (APT) and gas units are not scaled.           *)
(***************************************************************************)
EXTENDS Integers, Sequences, FiniteSets, TLC

\* ---------------------------------------------------------------- bounds
MaxWallets == 2
MaxFee == 2
MaxGasUsed == 2
MaxQuoteCalls == 2

\* ------------------------------------------------------ program constants
APTOS_GAS == 10000
APTOS_AIRDROP == 520400
MAX_GAS_AMOUNT == 1000
WeiPerAmountUnit == 10

\* ------------------------------------------------------------ input sets
\* config['amount']['ETH'] range, in hundredths of an ether
Amounts == {1, 2}
\* quoteForSend(...)[0], in units of 10^15 wei
Fees == 1..MaxFee
\* source balances, in units of 10^15 wei
SrcBalances == {10, 12, 30}
\* APT balances (octas) a destination CoinStore may hold before the run
DstBalances == {0, 5}
\* sequence numbers a destination account may have
SeqNumbers == {0, 3}
\* simulate_res[0]['gas_used']
GasUsedValues == 1..MaxGasUsed
\* config max_gwei: 0 stands for an absent (None) ceiling
MaxGweiValues == {0, 1}
\* gas prices the source node may report
GasPrices == {1, 2}

KeyRecords == [private_key : BOOLEAN, aptos_private_key : BOOLEAN]

WalletLists == UNION {[1..n -> KeyRecords] : n \in 0..MaxWallets}

VARIABLES
    wallets,          \* rows of the wallets file: TRUE = the key parses
    max_gwei,         \* self.max_gwei
    pc,               \* position in run()
    i,                \* enumerate(wallets, 1) index
    is_new_account,   \* run() local
    random_amount,    \* run() local
    native_fee,       \* withdraw() local
    amount_wei,       \* withdraw() local
    transfer_amount,  \* withdraw() local
    sequence_number,  \* run() local
    balance,          \* run() local (destination balance during polling)
    payload,          \* send_transaction() argument
    simulate_res,     \* send_transaction() local: what was simulated
    gas_limit,        \* send_transaction() local
    max_gas_amount,   \* self.client.client_config.max_gas_amount (shared)
    src_balance,      \* source chain: balance of the current wallet
    dst_store,        \* destination chain: the APT CoinStore exists
    dst_balance,      \* destination chain: APT balance of the current wallet
    dst_seq,          \* destination chain: sequence number of the account
    delivered,        \* the bridge delivered the current wallet's transfer
    evm_sent,         \* source chain: last broadcast of the current wallet
    aptos_sent,       \* destination chain: last broadcast of the current wallet
    hist,             \* per wallet: what run() did for it
    obs,              \* outcomes of the current wallet's destination reads
    quote_calls       \* quoteForSend calls made for the current wallet

locals == <<is_new_account, random_amount, native_fee, amount_wei,
            transfer_amount, sequence_number, balance, obs>>
call == <<payload, simulate_res, gas_limit>>
chain == <<src_balance, dst_store, dst_balance, dst_seq, delivered>>
net == <<evm_sent, aptos_sent, quote_calls>>
config == <<wallets, max_gwei>>

vars == <<wallets, max_gwei, pc, i, is_new_account, random_amount, native_fee,
          amount_wei, transfer_amount, sequence_number, balance, payload,
          simulate_res, gas_limit, max_gas_amount, src_balance, dst_store,
          dst_balance, dst_seq, delivered, evm_sent, aptos_sent, hist, obs,
          quote_calls>>

NoTx == [kind |-> "none"]

NoSim == [payload |-> "none", gas_used |-> 0, max_gas_amount |-> 0]

\* delays: inter-wallet delays (line 231) taken after the wallet
NewHist == [status |-> "NotStarted", gate |-> FALSE, quotes |-> 0,
            transfers |-> 0, polled |-> FALSE, registers |-> 0, confirmed |-> FALSE,
            claims |-> 0, delays |-> 0]

\* seq_raised: the sequence-number read of line 207 raised
\* read: outcome of the latest AptosNode.get_balance call of the poll loop
NoObs == [seq_raised |-> FALSE, read |-> "none"]

\* ------------------------------------------------------- pure functions

\* a validation that stops after the first row
check_FirstRowOnly(res) ==
    IF res = <<>> THEN TRUE
    ELSE Head(res).private_key /\ Head(res).aptos_private_key

\* CsvFileReaderWithCheck.check: from_key / load_key on every row, in order;
\* the first key that does not parse raises.
RECURSIVE check(_)
check(res) ==
    IF res = <<>> THEN TRUE
    ELSE /\ Head(res).private_key
         /\ Head(res).aptos_private_key
         /\ check(Tail(res))

\* Web3.to_wei(amount, 'ether')
to_wei(amount) == amount * WeiPerAmountUnit

\* the fee left out of the attached value
TransferAmount_NoFee(amount, fee) == amount

\* withdraw, line 141
TransferAmount(amount, fee) == amount + fee

\* the balance check left out
LowBalance_Never(balance_in_wei, required) == FALSE

\* withdraw, line 142
LowBalance(balance_in_wei, required) == balance_in_wei < required

\* rounding down instead of up
GasLimit_Floor(gas_used) == (gas_used * 12) \div 10

\* send_transaction, line 99: math.ceil(int(gas_used) * 1.2)
GasLimit(gas_used) == (gas_used * 12 + 9) \div 10

\* the ceiling left in the client configuration by the previous call
SimulationCeiling_Stale(configured) == configured

\* send_transaction, line 96: the ceiling the configuration holds when the
\* transaction is built for simulation (lines 97-98)
SimulationCeiling(configured) == MAX_GAS_AMOUNT

\* the sequence-number test inverted
NeedsBootstrap_Inverted(is_new, seq) == is_new \/ seq # 0

\* run, line 210
NeedsBootstrap(is_new, seq) == is_new \/ seq = 0

\* AptosBridge._get_adapter_params / _get_call_params
AdapterParams(aptos_address) == <<2, APTOS_GAS, APTOS_AIRDROP, aptos_address>>
CallParams(address) == <<address, 0>>

\* a quote whose arguments also carry the requested amount
WithdrawQuoteArgs_WithAmount(account, aptos_address, amount) ==
    <<CallParams(account), AdapterParams(aptos_address), amount>>

\* AptosBridge.quote_to_send, lines 57-59: the arguments of quoteForSend
quote_to_send(account, aptos_address) ==
    <<CallParams(account), AdapterParams(aptos_address)>>

\* withdraw, line 138: the quote is asked for before the amount is used
WithdrawQuoteArgs(account, aptos_address, amount) ==
    quote_to_send(account, aptos_address)

\* one quoteForSend call, with the withdraw() arguments it was made for
QuoteCall(account, aptos_address, amount) ==
    [account |-> account, aptos_address |-> aptos_address, amount |-> amount,
     args |-> WithdrawQuoteArgs(account, aptos_address, amount)]

\* -------------------------------------------------------------- helpers

\* an exception that is not caught per wallet and ends run()
Raise_EndsRun == /\ pc' = "done"
                 /\ hist' = [hist EXCEPT ![i].status = "Failed"]

\* a handler that tries the failed wallet again
Raise_Retry == /\ pc' = "start"
               /\ hist' = [hist EXCEPT ![i].status = "Failed"]

\* the `except Exception` of line 228: log, abandon the wallet
Raise == /\ pc' = "iter_end"
         /\ hist' = [hist EXCEPT ![i].status = "Failed"]

Finish == /\ pc' = "iter_end"
          /\ hist' = [hist EXCEPT ![i].status = "Done"]

Init ==
    /\ wallets \in WalletLists
    /\ max_gwei \in MaxGweiValues
    /\ pc = "load"
    /\ i = 0
    /\ is_new_account = FALSE
    /\ random_amount = 0
    /\ native_fee = 0
    /\ amount_wei = 0
    /\ transfer_amount = 0
    /\ sequence_number = 0
    /\ balance = 0
    /\ payload = "none"
    /\ simulate_res = NoSim
    /\ gas_limit = 0
    /\ max_gas_amount = 0
    /\ src_balance = 0
    /\ dst_store = FALSE
    /\ dst_balance = 0
    /\ dst_seq = 0
    /\ delivered = FALSE
    /\ evm_sent = NoTx
    /\ aptos_sent = NoTx
    /\ hist = [w \in 1..Len(wallets) |-> NewHist]
    /\ obs = NoObs
    /\ quote_calls = <<>>

\* run, lines 177-182: load and validate the wallets file
LoadWallets ==
    /\ pc = "load"
    /\ IF check(wallets) /\ Len(wallets) > 0
          THEN /\ pc' = "start"
               /\ i' = 1
          ELSE /\ pc' = "done"
               /\ i' = i
    /\ UNCHANGED <<config, locals, call, max_gas_amount, chain, net, hist>>

\* run, lines 184-187: derive the accounts, read the source balance.
\* The chain state of this wallet's two accounts is what the environment
\* holds when the wallet is reached.
StartWallet ==
    /\ pc = "start"
    /\ \E sb \in SrcBalances, st \in BOOLEAN, db \in DstBalances, sq \in SeqNumbers :
          /\ src_balance' = sb
          /\ dst_store' = st
          /\ dst_balance' = IF st THEN db ELSE 0
          /\ dst_seq' = sq
    /\ delivered' = FALSE
    /\ \E ok \in BOOLEAN :
          IF ok /\ wallets[i].private_key /\ wallets[i].aptos_private_key
             THEN /\ pc' = "aptos_balance"
                  /\ hist' = [hist EXCEPT ![i].status = "Running"]
             ELSE Raise
    /\ UNCHANGED <<config, i, locals, call, max_gas_amount, net>>

\* run, lines 188-193
ReadAptosBalance ==
    /\ pc = "aptos_balance"
    /\ \/ /\ dst_store
          /\ is_new_account' = FALSE
          /\ pc' = "amount"
          /\ hist' = hist
       \/ /\ ~dst_store
          /\ is_new_account' = TRUE
          /\ pc' = "amount"
          /\ hist' = hist
       \/ /\ is_new_account' = is_new_account
          /\ Raise
    /\ UNCHANGED <<config, i, random_amount, native_fee, amount_wei,
                   transfer_amount, sequence_number, balance, obs, call,
                   max_gas_amount, chain, net>>

\* the gas gate of lines 201-202 left out
PickAmount_NoGate ==
    /\ pc = "amount"
    /\ \E a \in Amounts : random_amount' = a
    /\ pc' = "quote"
    /\ UNCHANGED <<config, i, is_new_account, native_fee, amount_wei,
                   transfer_amount, sequence_number, balance, obs, call,
                   max_gas_amount, chain, net, hist>>

\* run, lines 200-201
PickAmount ==
    /\ pc = "amount"
    /\ \E a \in Amounts : random_amount' = a
    /\ pc' = IF max_gwei # 0 THEN "gas_gate" ELSE "quote"
    /\ UNCHANGED <<config, i, is_new_account, native_fee, amount_wei,
                   transfer_amount, sequence_number, balance, obs, call,
                   max_gas_amount, chain, net, hist>>

\* run, line 202: Node.wait_for_gas blocks until the price is at or below
\* the ceiling
WaitForGas ==
    /\ pc = "gas_gate"
    /\ \/ \E price \in GasPrices :
             IF price <= max_gwei
                THEN /\ pc' = "quote"
                     /\ hist' = [hist EXCEPT ![i].gate = TRUE]
                ELSE /\ pc' = pc
                     /\ hist' = hist
       \/ Raise
    /\ UNCHANGED <<config, i, locals, call, max_gas_amount, chain, net>>

\* withdraw, lines 136-141
Quote ==
    /\ pc = "quote"
    /\ \/ \E fee \in Fees :
             /\ native_fee' = fee
             /\ amount_wei' = to_wei(random_amount)
             /\ transfer_amount' = TransferAmount(to_wei(random_amount), fee)
             /\ quote_calls' = Append(quote_calls, QuoteCall(i, i, random_amount))
             /\ pc' = "check"
             /\ hist' = [hist EXCEPT ![i].quotes = @ + 1]
       \/ /\ UNCHANGED <<native_fee, amount_wei, transfer_amount>>
          /\ quote_calls' = Append(quote_calls, QuoteCall(i, i, random_amount))
          /\ pc' = "iter_end"
          /\ hist' = [hist EXCEPT ![i].quotes = @ + 1, ![i].status = "Failed"]
       \/ /\ UNCHANGED <<native_fee, amount_wei, transfer_amount, quote_calls>>
          /\ Raise
    /\ UNCHANGED <<config, i, is_new_account, random_amount, sequence_number,
                   balance, obs, call, max_gas_amount, chain, evm_sent,
                   aptos_sent>>

\* withdraw, lines 142-144
CheckBalance ==
    /\ pc = "check"
    /\ \/ IF LowBalance(src_balance, transfer_amount)
             THEN Raise
             ELSE /\ pc' = "send"
                  /\ hist' = hist
       \/ Raise
    /\ UNCHANGED <<config, i, locals, call, max_gas_amount, chain, net>>

\* withdraw line 145, send_eth_to_aptos lines 61-70
SendEthToAptos ==
    /\ pc = "send"
    /\ \/ /\ evm_sent' = [kind |-> "sendETHToAptos",
                          aptos_address |-> i,
                          amount |-> amount_wei,
                          call_params |-> CallParams(i),
                          adapter_params |-> AdapterParams(i),
                          value |-> transfer_amount]
          /\ src_balance' = src_balance - transfer_amount
          /\ pc' = "seq"
          /\ hist' = [hist EXCEPT ![i].transfers = @ + 1]
       \/ /\ UNCHANGED <<evm_sent, src_balance>>
          /\ Raise
    /\ UNCHANGED <<config, i, locals, call, max_gas_amount, dst_store,
                   dst_balance, dst_seq, delivered, aptos_sent, quote_calls>>

\* the bridge relays the transfer: the airdrop reaches the destination account
Deliver ==
    /\ pc \in {"seq", "get_balance", "poll_delay"}
    /\ hist[i].transfers > 0
    /\ ~delivered
    /\ delivered' = TRUE
    /\ dst_store' = TRUE
    /\ dst_balance' = dst_balance + APTOS_AIRDROP
    /\ UNCHANGED <<config, pc, i, locals, call, max_gas_amount, src_balance,
                   dst_seq, net, hist>>

\* a sequence-number read whose exception is not caught at line 208
ReadSequenceNumber_Propagates ==
    /\ pc = "seq"
    /\ \/ /\ sequence_number' = dst_seq
          /\ obs' = obs
          /\ IF NeedsBootstrap(is_new_account, dst_seq)
                THEN /\ pc' = "get_balance"
                     /\ hist' = hist
                ELSE Finish
       \/ /\ sequence_number' = sequence_number
          /\ obs' = [obs EXCEPT !.seq_raised = TRUE]
          /\ Raise
    /\ UNCHANGED <<config, i, is_new_account, random_amount, native_fee,
                   amount_wei, transfer_amount, balance, call, max_gas_amount,
                   chain, net>>

\* run, lines 206-210: the read returns the account's sequence number, or it
\* raises and line 209 sets sequence_number to 0
ReadSequenceNumber ==
    /\ pc = "seq"
    /\ \E raised \in BOOLEAN :
          /\ sequence_number' = IF raised THEN 0 ELSE dst_seq
          /\ obs' = [obs EXCEPT !.seq_raised = raised]
          /\ IF NeedsBootstrap(is_new_account, sequence_number')
                THEN /\ pc' = "get_balance"
                     /\ hist' = hist
                ELSE Finish
    /\ UNCHANGED <<config, i, is_new_account, random_amount, native_fee,
                   amount_wei, transfer_amount, balance, call, max_gas_amount,
                   chain, net>>

\* a poll loop that does not test the balance it read
GetBalance_NoTest ==
    /\ pc = "get_balance"
    /\ \/ /\ balance' = IF dst_store THEN dst_balance ELSE 0
          /\ obs' = [obs EXCEPT !.read = IF dst_store THEN "value" ELSE "not_found"]
          /\ hist' = [hist EXCEPT ![i].polled = TRUE]
          /\ pc' = "simulate"
          /\ payload' = "register"
       \/ /\ UNCHANGED <<balance, payload>>
          /\ obs' = [obs EXCEPT !.read = "raised"]
          /\ pc' = "iter_end"
          /\ hist' = [hist EXCEPT ![i].polled = TRUE, ![i].status = "Failed"]
    /\ UNCHANGED <<config, i, is_new_account, random_amount, native_fee,
                   amount_wei, transfer_amount, sequence_number, simulate_res,
                   gas_limit, max_gas_amount, chain, net>>

\* a poll loop that wants a second non-zero read before it goes on
GetBalance_ReadsAgain ==
    /\ pc = "get_balance"
    /\ \/ /\ balance' = IF dst_store THEN dst_balance ELSE 0
          /\ obs' = [obs EXCEPT !.read = IF dst_store THEN "value" ELSE "not_found"]
          /\ hist' = [hist EXCEPT ![i].polled = TRUE]
          /\ IF balance' # 0 /\ balance # 0
                THEN /\ pc' = "simulate"
                     /\ payload' = "register"
                ELSE /\ pc' = "poll_delay"
                     /\ payload' = payload
       \/ /\ UNCHANGED <<balance, payload>>
          /\ obs' = [obs EXCEPT !.read = "raised"]
          /\ pc' = "iter_end"
          /\ hist' = [hist EXCEPT ![i].polled = TRUE, ![i].status = "Failed"]
    /\ UNCHANGED <<config, i, is_new_account, random_amount, native_fee,
                   amount_wei, transfer_amount, sequence_number, simulate_res,
                   gas_limit, max_gas_amount, chain, net>>

\* get_balance without the `except ResourceNotFound` of lines 86-87
GetBalance_NotFoundRaises ==
    /\ pc = "get_balance"
    /\ \/ /\ dst_store
          /\ balance' = dst_balance
          /\ obs' = [obs EXCEPT !.read = "value"]
          /\ hist' = [hist EXCEPT ![i].polled = TRUE]
          /\ IF balance' # 0
                THEN /\ pc' = "simulate"
                     /\ payload' = "register"
                ELSE /\ pc' = "poll_delay"
                     /\ payload' = payload
       \/ /\ ~dst_store
          /\ UNCHANGED <<balance, payload>>
          /\ obs' = [obs EXCEPT !.read = "not_found"]
          /\ pc' = "iter_end"
          /\ hist' = [hist EXCEPT ![i].polled = TRUE, ![i].status = "Failed"]
       \/ /\ UNCHANGED <<balance, payload>>
          /\ obs' = [obs EXCEPT !.read = "raised"]
          /\ pc' = "iter_end"
          /\ hist' = [hist EXCEPT ![i].polled = TRUE, ![i].status = "Failed"]
    /\ UNCHANGED <<config, i, is_new_account, random_amount, native_fee,
                   amount_wei, transfer_amount, sequence_number, simulate_res,
                   gas_limit, max_gas_amount, chain, net>>

\* AptosNode.get_balance, lines 83-87, called at lines 211 and 226, and the
\* loop test of lines 214-216.  A missing CoinStore (ResourceNotFound) reads
\* as 0; any other exception leaves the loop body.
GetBalance ==
    /\ pc = "get_balance"
    /\ \/ /\ balance' = IF dst_store THEN dst_balance ELSE 0
          /\ obs' = [obs EXCEPT !.read = IF dst_store THEN "value" ELSE "not_found"]
          /\ hist' = [hist EXCEPT ![i].polled = TRUE]
          /\ IF balance' # 0
                THEN /\ pc' = "simulate"
                     /\ payload' = "register"
                ELSE /\ pc' = "poll_delay"
                     /\ payload' = payload
       \/ /\ UNCHANGED <<balance, payload>>
          /\ obs' = [obs EXCEPT !.read = "raised"]
          /\ pc' = "iter_end"
          /\ hist' = [hist EXCEPT ![i].polled = TRUE, ![i].status = "Failed"]
    /\ UNCHANGED <<config, i, is_new_account, random_amount, native_fee,
                   amount_wei, transfer_amount, sequence_number, simulate_res,
                   gas_limit, max_gas_amount, chain, net>>

\* a poll loop with a bounded number of attempts: after the delay the
\* wallet is given up instead of being read again
PollDelay_GivesUp ==
    /\ pc = "poll_delay"
    /\ Raise
    /\ UNCHANGED <<config, i, locals, call, max_gas_amount, chain, net>>

\* run, line 225
PollDelay ==
    /\ pc = "poll_delay"
    /\ pc' = "get_balance"
    /\ UNCHANGED <<config, i, locals, call, max_gas_amount, chain, net, hist>>

\* a simulation whose failure is swallowed: the nominal ceiling is kept
Simulate_FailureSwallowed ==
    /\ pc = "simulate"
    /\ \/ \E gas_used \in GasUsedValues :
             /\ simulate_res' = [payload |-> payload, gas_used |-> gas_used,
                                  max_gas_amount |-> SimulationCeiling(max_gas_amount)]
             /\ gas_limit' = GasLimit(gas_used)
             /\ max_gas_amount' = GasLimit(gas_used)
       \/ /\ UNCHANGED <<simulate_res, gas_limit>>
          /\ max_gas_amount' = MAX_GAS_AMOUNT
    /\ pc' = "submit"
    /\ UNCHANGED <<config, i, locals, payload, chain, net, hist>>

\* send_transaction, lines 96-100: simulate under the nominal ceiling and
\* store the computed ceiling in the client configuration
Simulate ==
    /\ pc = "simulate"
    /\ \/ \E gas_used \in GasUsedValues :
             /\ simulate_res' = [payload |-> payload, gas_used |-> gas_used,
                                  max_gas_amount |-> SimulationCeiling(max_gas_amount)]
             /\ gas_limit' = GasLimit(gas_used)
             /\ max_gas_amount' = GasLimit(gas_used)
             /\ pc' = "submit"
             /\ hist' = hist
       \/ /\ UNCHANGED <<simulate_res, gas_limit>>
          /\ max_gas_amount' = MAX_GAS_AMOUNT
          /\ Raise
    /\ UNCHANGED <<config, i, locals, payload, chain, net>>

\* the poll loop without the `break` of line 223: after claim the loop
\* test runs again and register is sent once more
Submit_NoBreak ==
    /\ pc = "submit"
    /\ \/ /\ aptos_sent' = [kind |-> payload, max_gas_amount |-> max_gas_amount,
                            simulated |-> simulate_res]
          /\ IF payload = "register"
                THEN /\ pc' = "wait"
                     /\ hist' = [hist EXCEPT ![i].registers = @ + 1]
                     /\ UNCHANGED call
                ELSE /\ pc' = "simulate"
                     /\ payload' = "register"
                     /\ UNCHANGED <<simulate_res, gas_limit>>
                     /\ hist' = [hist EXCEPT ![i].claims = @ + 1]
       \/ /\ aptos_sent' = aptos_sent
          /\ UNCHANGED call
          /\ Raise
    /\ UNCHANGED <<config, i, locals, max_gas_amount, chain, evm_sent,
                   quote_calls>>

\* send_transaction, lines 101-103, and the return to run()
Submit ==
    /\ pc = "submit"
    /\ \/ /\ aptos_sent' = [kind |-> payload, max_gas_amount |-> max_gas_amount,
                            simulated |-> simulate_res]
          /\ IF payload = "register"
                THEN /\ pc' = "wait"
                     /\ hist' = [hist EXCEPT ![i].registers = @ + 1]
                ELSE /\ pc' = "iter_end"
                     /\ hist' = [hist EXCEPT ![i].claims = @ + 1,
                                             ![i].status = "Done"]
       \/ /\ aptos_sent' = aptos_sent
          /\ Raise
    /\ UNCHANGED <<config, i, locals, call, max_gas_amount, chain, evm_sent,
                   quote_calls>>

\* a confirmation wait whose failure does not stop the sequence
WaitForTransaction_Unchecked ==
    /\ pc = "wait"
    /\ pc' = "tx_delay"
    /\ \/ hist' = [hist EXCEPT ![i].confirmed = TRUE]
       \/ hist' = hist
    /\ UNCHANGED <<config, i, locals, call, max_gas_amount, chain, net>>

\* run, line 219
WaitForTransaction ==
    /\ pc = "wait"
    /\ \/ /\ pc' = "tx_delay"
          /\ hist' = [hist EXCEPT ![i].confirmed = TRUE]
       \/ Raise
    /\ UNCHANGED <<config, i, locals, call, max_gas_amount, chain, net>>

\* run, lines 220-221
TransactionDelay ==
    /\ pc = "tx_delay"
    /\ pc' = "simulate"
    /\ payload' = "claim_coin"
    /\ simulate_res' = NoSim
    /\ gas_limit' = 0
    /\ UNCHANGED <<config, i, locals, max_gas_amount, chain, net, hist>>

\* an inter-wallet delay taken after every wallet, the last one included
NextWallet_DelaysAfterLast ==
    /\ pc = "iter_end"
    /\ hist' = [hist EXCEPT ![i].delays = @ + 1]
    /\ IF i < Len(wallets)
          THEN /\ i' = i + 1
               /\ pc' = "start"
               /\ is_new_account' = FALSE
               /\ random_amount' = 0
               /\ native_fee' = 0
               /\ amount_wei' = 0
               /\ transfer_amount' = 0
               /\ sequence_number' = 0
               /\ balance' = 0
               /\ obs' = NoObs
               /\ quote_calls' = <<>>
               /\ payload' = "none"
               /\ simulate_res' = NoSim
               /\ gas_limit' = 0
               /\ evm_sent' = NoTx
               /\ aptos_sent' = NoTx
          ELSE /\ i' = i
               /\ pc' = "done"
               /\ UNCHANGED <<locals, call, net>>
    /\ UNCHANGED <<config, max_gas_amount, chain>>

\* run, lines 230-231 and the loop head of line 182.  The locals of the
\* iteration that ends are dead: every one of them is assigned again before
\* the next iteration reads it, so they restart from their initial values,
\* and evm_sent / aptos_sent describe the wallet being processed.
NextWallet ==
    /\ pc = "iter_end"
    /\ IF i < Len(wallets)
          THEN /\ hist' = [hist EXCEPT ![i].delays = @ + 1]
               /\ i' = i + 1
               /\ pc' = "start"
               /\ is_new_account' = FALSE
               /\ random_amount' = 0
               /\ native_fee' = 0
               /\ amount_wei' = 0
               /\ transfer_amount' = 0
               /\ sequence_number' = 0
               /\ balance' = 0
               /\ obs' = NoObs
               /\ quote_calls' = <<>>
               /\ payload' = "none"
               /\ simulate_res' = NoSim
               /\ gas_limit' = 0
               /\ evm_sent' = NoTx
               /\ aptos_sent' = NoTx
          ELSE /\ hist' = hist
               /\ i' = i
               /\ pc' = "done"
               /\ UNCHANGED <<locals, call, net>>
    /\ UNCHANGED <<config, max_gas_amount, chain>>

\* ------------------------------------------------------------ properties

Wallets == DOMAIN hist

\* a wallet is being processed (i = 0 before the list is loaded)
InWallet == i \in Wallets

NoSubmission(w) ==
    /\ hist[w].transfers = 0
    /\ hist[w].registers = 0
    /\ hist[w].claims = 0

\* C1: the value attached to the transfer submitted by withdraw is the
\* requested amount in wei plus the quoted native fee, and the amount
\* argument of sendETHToAptos is the requested amount in wei.
C1_TransferValue ==
    evm_sent.kind = "sendETHToAptos" =>
        /\ evm_sent.value = random_amount * WeiPerAmountUnit + native_fee
        /\ evm_sent.amount = random_amount * WeiPerAmountUnit
        /\ hist[i].transfers = 1

C1_Witness ==
    /\ evm_sent.kind = "sendETHToAptos"
    /\ random_amount = 2
    /\ native_fee = 2
    /\ evm_sent.value = 22
    /\ evm_sent.amount = 20

\* The source balance withdraw compared with the required value: the
\* balance on the chain, plus what the wallet's own transfer has taken.
BalanceAtCheck ==
    src_balance + (IF evm_sent.kind = "sendETHToAptos" THEN evm_sent.value ELSE 0)

\* C2: when the source balance is below amount + fee, withdraw raises before
\* anything is submitted: the wallet's iteration ends Failed with no
\* transfer, no register and no claim.
C2_LowBalanceNoSubmission ==
    (InWallet /\ transfer_amount > 0 /\ BalanceAtCheck < transfer_amount) =>
        /\ NoSubmission(i)
        /\ evm_sent = NoTx
        /\ aptos_sent = NoTx
        /\ pc \in {"check", "iter_end", "done"}
        /\ pc # "check" => hist[i].status = "Failed"

C2_Witness ==
    /\ pc = "iter_end"
    /\ hist[i].status = "Failed"
    /\ src_balance = 12
    /\ transfer_amount = 21
    /\ NoSubmission(i)

\* C3: claim is submitted only after the register of the same wallet was
\* submitted and its confirmation wait returned; a wallet whose register
\* submission or confirmation failed has no claim.
C3_ClaimAfterConfirmedRegister ==
    /\ \A w \in Wallets :
          hist[w].claims > 0 => hist[w].registers > 0 /\ hist[w].confirmed
    /\ (pc \in {"simulate", "submit"} /\ payload = "claim_coin") =>
          hist[i].registers > 0 /\ hist[i].confirmed
    /\ aptos_sent.kind = "claim_coin" => hist[i].confirmed

C3_Witness ==
    /\ aptos_sent.kind = "claim_coin"
    /\ hist[i].registers = 1
    /\ hist[i].confirmed
    /\ hist[i].claims = 1

\* C4: a failure while one wallet is processed does not stop the run (when
\* run() ends, every wallet of a loaded list was attempted), the failed
\* wallet is no longer processed, and nothing more is submitted for it.
C4_Attempted ==
    /\ (pc = "done" /\ i > 0) => \A w \in Wallets : hist[w].status \in {"Done", "Failed"}
    /\ \A w \in Wallets :
          hist[w].status = "Failed" => w < i \/ (w = i /\ pc \in {"iter_end", "done"})

C4_Abandoned ==
    \A w \in Wallets :
        hist[w].status = "Failed" =>
            /\ hist'[w].status = "Failed"
            /\ hist'[w].quotes = hist[w].quotes
            /\ hist'[w].transfers = hist[w].transfers
            /\ hist'[w].registers = hist[w].registers
            /\ hist'[w].claims = hist[w].claims

C4_FailureIsolated == [](C4_Attempted) /\ [][C4_Abandoned]_vars

C4_Witness ==
    /\ pc = "done"
    /\ Len(wallets) = 2
    /\ hist[1].status = "Failed"
    /\ hist[1].transfers = 1
    /\ hist[2].status = "Done"
    /\ hist[2].claims = 1

MalformedRow(k) == ~wallets[k].private_key \/ ~wallets[k].aptos_private_key

\* C5: when some row of the wallet list has a key that does not parse, run()
\* ends during loading: no wallet is started and nothing is submitted, also
\* for the rows before the malformed one.
C5_MalformedKeyAbortsRun ==
    (\E k \in DOMAIN wallets : MalformedRow(k)) =>
        /\ pc \in {"load", "done"}
        /\ \A w \in Wallets : hist[w] = NewHist
        /\ evm_sent = NoTx
        /\ aptos_sent = NoTx

C5_Witness ==
    /\ pc = "done"
    /\ Len(wallets) = 2
    /\ ~MalformedRow(1)
    /\ MalformedRow(2)
    /\ hist[1].status = "NotStarted"

\* C6: a destination-chain transaction is broadcast only after a successful
\* simulation of the same payload in the same send_transaction call; a call
\* whose simulation failed broadcasts nothing and the wallet ends Failed.
C6_NoCommitWithoutSimulation ==
    /\ aptos_sent.kind # "none" =>
          /\ aptos_sent.simulated # NoSim
          /\ aptos_sent.simulated.payload = aptos_sent.kind
    /\ pc = "submit" => simulate_res.payload = payload
    /\ (payload # "none" /\ simulate_res = NoSim /\ pc # "simulate") =>
          /\ aptos_sent.kind # payload
          /\ pc \in {"tx_delay", "iter_end", "done"}
          /\ pc # "tx_delay" => hist[i].status = "Failed"

C6_Witness ==
    /\ pc = "iter_end"
    /\ payload = "claim_coin"
    /\ simulate_res = NoSim
    /\ aptos_sent.kind = "register"
    /\ hist[i].status = "Failed"

\* C7: the gas ceiling of a broadcast destination-chain transaction is the
\* least integer not below 6/5 of the gas_used of its simulation.
C7_GasCeiling ==
    aptos_sent.kind # "none" =>
        LET g == aptos_sent.simulated.gas_used
            c == aptos_sent.max_gas_amount
        IN  /\ 5 * c >= 6 * g
            /\ 5 * (c - 1) < 6 * g

C7_Witness ==
    /\ aptos_sent.kind = "register"
    /\ aptos_sent.simulated.gas_used = 2
    /\ aptos_sent.max_gas_amount = 3

Bootstrapped(w) == hist[w].polled \/ hist[w].registers > 0 \/ hist[w].claims > 0

\* C8 as stated: an account judged Existing whose sequence number is
\* non-zero is never polled and gets neither register nor claim.
C8_ExistingAlwaysSkips ==
    (InWallet /\ ~is_new_account /\ dst_seq # 0) => ~Bootstrapped(i)

\* C8 (amended): when the account was judged Existing at start and the
\* sequence-number read after the transfer returned a non-zero value,
\* bootstrap is skipped whatever the destination balance: no balance poll,
\* no register, no claim.
C8_ExistingWithReadSequenceSkips ==
    (InWallet /\ ~is_new_account /\ sequence_number # 0) =>
        /\ ~Bootstrapped(i)
        /\ pc \in {"iter_end", "done"}
        /\ hist[i].status = "Done"

C8_Witness ==
    /\ InWallet
    /\ hist[i].status = "Done"
    /\ ~is_new_account
    /\ sequence_number = 3
    /\ dst_balance >= 5
    /\ ~Bootstrapped(i)

\* C9: a register is submitted only for a wallet whose transfer was
\* submitted, whose account was judged New or whose sequence-number read
\* was unavailable or zero, and whose latest balance read was non-zero.
C9_RegisterPreconditions ==
    (InWallet /\ (hist[i].registers > 0 \/ (pc \in {"simulate", "submit"} /\ payload = "register"))) =>
        /\ hist[i].transfers = 1
        /\ evm_sent.kind = "sendETHToAptos"
        /\ is_new_account \/ sequence_number = 0
        /\ balance # 0

C9_Witness ==
    /\ InWallet
    /\ hist[i].registers = 1
    /\ ~is_new_account
    /\ dst_seq = 3
    /\ sequence_number = 0
    /\ balance = 5

\* C10: register and claim are submitted only once the funds bridged by the
\* wallet's transfer have arrived on the destination chain.
C10_BootstrapAfterDelivery ==
    \A w \in Wallets :
        (w = i /\ (hist[w].registers > 0 \/ hist[w].claims > 0)) => delivered

PollPcs == {"get_balance", "poll_delay"}

\* C11 (state part): once a balance read returned a non-zero value the
\* wallet is no longer in the poll loop; while the latest read returned
\* zero the wallet is still in it.
C11_PollState ==
    InWallet =>
        /\ (obs.read = "value" /\ balance # 0) => pc \notin PollPcs
        /\ (obs.read \in {"value", "not_found"} /\ balance = 0) => pc \in PollPcs

\* C11 (step part): the delay is entered only from a read that returned
\* zero, the delay is followed by a read, and a read happens only on
\* entering the loop or after a delay.
C11_PollStep ==
    /\ (pc' = "poll_delay" /\ pc # "poll_delay") =>
          /\ pc = "get_balance"
          /\ balance' = 0
          /\ obs'.read \in {"value", "not_found"}
    /\ (pc = "poll_delay" /\ pc' # "poll_delay") =>
          /\ pc' = "get_balance"
          /\ UNCHANGED <<balance, obs>>
    /\ (pc = "get_balance" /\ pc' = "get_balance") => UNCHANGED <<balance, obs>>
    /\ (pc' = "get_balance" /\ pc # "get_balance") => pc \in {"seq", "poll_delay"}
    /\ obs'.read # obs.read => pc = "get_balance" \/ pc' = "start"

\* C11: the deposit poll loop stops at the first balance read that returns
\* a non-zero value, and every read that returned zero is followed by a
\* delay and then one further read.
C11_PollStopsAtFirstNonZero == [](C11_PollState) /\ [][C11_PollStep]_vars

C11_Witness ==
    /\ pc = "simulate"
    /\ payload = "register"
    /\ is_new_account
    /\ obs.read = "value"
    /\ balance = APTOS_AIRDROP

Finished(w) == hist[w].status \in {"Done", "Failed"}

C12_Order ==
    \A w \in Wallets :
        /\ w < i => Finished(w)
        /\ w > i => hist[w] = NewHist
        /\ (w = i /\ pc = "start") => hist[w] = NewHist
        /\ hist[w].status = "Running" =>
              w = i /\ pc \notin {"load", "start", "iter_end", "done"}

C12_Step ==
    /\ i' # i =>
          /\ i' = i + 1
          /\ pc' = "start"
          /\ i = 0 \/ (pc = "iter_end" /\ Finished(i))
    /\ \A w \in Wallets :
          /\ hist'[w] # hist[w] => w = i
          /\ hist[w].status # "NotStarted" => hist'[w].status # "NotStarted"

\* C12: wallets are processed one after the other in list order: a wallet
\* is started only when its predecessor is Done or Failed, it is started
\* once, and every step acts on the current wallet only.
C12_Sequential == [](C12_Order) /\ [][C12_Step]_vars

C12_Witness ==
    /\ i = 2
    /\ pc = "aptos_balance"
    /\ hist[1].status = "Done"
    /\ hist[2].status = "Running"

\* C14: exactly one inter-wallet delay is taken after every wallet that has
\* a successor, whether it ended Done or Failed, and none after the last.
C14_InterWalletDelay ==
    /\ \A w \in Wallets : hist[w].delays = IF w < i THEN 1 ELSE 0
    /\ i <= Len(wallets)

C14_Witness ==
    /\ pc = "done"
    /\ Len(wallets) = 2
    /\ hist[1].status = "Failed"
    /\ hist[1].delays = 1
    /\ hist[2].status = "Done"
    /\ hist[2].delays = 0

\* C15: with a gas-price ceiling configured, no quote and no transfer
\* happens for a wallet before the gate returned; without a ceiling the
\* gate is never entered; a wallet whose gate failed has no quote and no
\* transfer.
C15_GasGate ==
    /\ max_gwei = 0 => pc # "gas_gate" /\ \A w \in Wallets : ~hist[w].gate
    /\ max_gwei # 0 =>
          /\ \A w \in Wallets :
                (hist[w].quotes > 0 \/ hist[w].transfers > 0) => hist[w].gate
          /\ (InWallet /\ pc \in {"quote", "check", "send"}) => hist[i].gate
          /\ quote_calls # <<>> => hist[i].gate

C15_Witness ==
    /\ pc = "iter_end"
    /\ max_gwei = 1
    /\ random_amount > 0
    /\ ~hist[i].gate
    /\ hist[i].status = "Failed"
    /\ hist[i].quotes = 0

\* C16: a sequence-number read that raised does not fail the wallet: it
\* counts as sequence number 0, the wallet goes on to the balance poll and,
\* with a non-zero balance, to register, also for an Existing account.
C16_SequenceReadFailureBootstraps ==
    (InWallet /\ obs.seq_raised) =>
        /\ sequence_number = 0
        /\ pc # "seq"
        /\ pc = "get_balance" \/ hist[i].polled
        /\ hist[i].status = "Failed" => obs.read # "none"
        /\ hist[i].status = "Done" => hist[i].claims = 1
        /\ (obs.read = "value" /\ balance # 0) => payload # "none"

C16_Witness ==
    /\ InWallet
    /\ obs.seq_raised
    /\ ~is_new_account
    /\ dst_seq = 3
    /\ aptos_sent.kind = "register"

\* C17: in the poll loop a balance read that finds no CoinStore counts as
\* balance 0 and polling goes on; a read that raises anything else ends the
\* wallet Failed with neither register nor claim submitted.
C17_PollReadFailures ==
    InWallet =>
        /\ obs.read = "not_found" =>
              /\ balance = 0
              /\ hist[i].status = "Running"
              /\ pc \in PollPcs
        /\ obs.read = "raised" =>
              /\ hist[i].status = "Failed"
              /\ pc \in {"iter_end", "done"}
              /\ hist[i].registers = 0
              /\ hist[i].claims = 0
              /\ aptos_sent = NoTx

C17_Witness ==
    /\ pc = "get_balance"
    /\ obs.read = "not_found"
    /\ balance = 0
    /\ ~dst_store

\* C18: for each wallet at most one quote is requested, at most one
\* transfer, one register and one claim are submitted, and a wallet that is
\* Done or Failed is not processed any further.
C18_AtMostOnce ==
    /\ \A w \in Wallets :
          /\ hist[w].quotes <= 1
          /\ hist[w].transfers <= 1
          /\ hist[w].registers <= 1
          /\ hist[w].claims <= 1
          /\ (Finished(w) /\ w = i) => pc \in {"iter_end", "done"}
    /\ Len(quote_calls) <= 1

C18_Witness ==
    /\ pc = "iter_end"
    /\ hist[i].status = "Done"
    /\ hist[i].quotes = 1
    /\ hist[i].transfers = 1
    /\ hist[i].registers = 1
    /\ hist[i].claims = 1

\* C20: every simulation runs under the nominal ceiling MAX_GAS_AMOUNT and
\* every broadcast carries the ceiling computed from the simulation of its
\* own call, whatever ceiling an earlier call left in the configuration.
C20_CeilingPerCall ==
    /\ simulate_res # NoSim =>
          /\ simulate_res.max_gas_amount = MAX_GAS_AMOUNT
          /\ simulate_res.payload = payload
    /\ pc = "submit" =>
          /\ max_gas_amount = gas_limit
          /\ 5 * gas_limit >= 6 * simulate_res.gas_used
          /\ 5 * (gas_limit - 1) < 6 * simulate_res.gas_used
    /\ aptos_sent # NoTx =>
          /\ aptos_sent.simulated.max_gas_amount = MAX_GAS_AMOUNT
          /\ aptos_sent.simulated.payload = aptos_sent.kind
          /\ 5 * aptos_sent.max_gas_amount >= 6 * aptos_sent.simulated.gas_used
          /\ 5 * (aptos_sent.max_gas_amount - 1) < 6 * aptos_sent.simulated.gas_used

C20_Witness ==
    /\ i = 2
    /\ hist[1].claims = 1
    /\ aptos_sent.kind = "claim_coin"
    /\ aptos_sent.max_gas_amount = 2
    /\ aptos_sent.simulated.gas_used = 1
    /\ hist[2].registers = 1

Next ==
    \/ LoadWallets
    \/ StartWallet
    \/ ReadAptosBalance
    \/ PickAmount
    \/ WaitForGas
    \/ Quote
    \/ CheckBalance
    \/ SendEthToAptos
    \/ Deliver
    \/ ReadSequenceNumber
    \/ GetBalance
    \/ PollDelay
    \/ Simulate
    \/ Submit
    \/ WaitForTransaction
    \/ TransactionDelay
    \/ NextWallet

Spec == Init /\ [][Next]_vars

\* the steps of run() itself; Deliver is the bridge's step
Program ==
    \/ LoadWallets
    \/ StartWallet
    \/ ReadAptosBalance
    \/ PickAmount
    \/ WaitForGas
    \/ Quote
    \/ CheckBalance
    \/ SendEthToAptos
    \/ ReadSequenceNumber
    \/ GetBalance
    \/ PollDelay
    \/ Simulate
    \/ Submit
    \/ WaitForTransaction
    \/ TransactionDelay
    \/ NextWallet

\* every external call and every sleep of run() returns; nothing is assumed
\* about the bridge ever delivering
FairSpec == Init /\ [][Next]_vars /\ WF_vars(Program)

\* the balance a read of the destination account would return
DstBalance == IF dst_store THEN dst_balance ELSE 0

StuckAtZero == pc \in PollPcs /\ DstBalance = 0

\* the second half of C13 as stated: while the balance is zero the poll
\* loop is not left and no other wallet is started
C13_ZeroBalanceNeverExits ==
    [][(pc \in PollPcs /\ DstBalance' = 0) => (pc' \in PollPcs /\ i' = i)]_vars

C13_LoopExit ==
    (pc \in PollPcs /\ DstBalance' = 0 /\ obs'.read # "raised") =>
        (pc' \in PollPcs /\ i' = i)

\* C13 (amended): when every call of run() returns, the run terminates
\* unless some wallet stays in the poll loop forever with a zero balance;
\* while the balance is zero and no balance read raised an error other than
\* 'not found', the poll loop is not left and no later wallet is started.
C13_TerminatesUnlessZeroForever ==
    /\ (<>[]StuckAtZero) \/ <>(pc = "done")
    /\ [][C13_LoopExit]_vars

C13_Witness ==
    /\ pc = "poll_delay"
    /\ i = 1
    /\ Len(wallets) = 2
    /\ ~delivered
    /\ obs.read \in {"value", "not_found"}
    /\ balance = 0
    /\ hist[2] = NewHist

\* source accounts and destination addresses of the quote requests
Accounts == 1..3
AptosAddresses == 1..2

\* the state before any quote was requested
QuoteInit ==
    /\ wallets = <<>>
    /\ max_gwei = 0
    /\ pc = "withdraw"
    /\ i = 0
    /\ is_new_account = FALSE
    /\ random_amount = 0
    /\ native_fee = 0
    /\ amount_wei = 0
    /\ transfer_amount = 0
    /\ sequence_number = 0
    /\ balance = 0
    /\ payload = "none"
    /\ simulate_res = NoSim
    /\ gas_limit = 0
    /\ max_gas_amount = 0
    /\ src_balance = 0
    /\ dst_store = FALSE
    /\ dst_balance = 0
    /\ dst_seq = 0
    /\ delivered = FALSE
    /\ evm_sent = NoTx
    /\ aptos_sent = NoTx
    /\ hist = <<>>
    /\ obs = NoObs
    /\ quote_calls = <<>>

\* withdraw, line 138, called for any source account, destination address
\* and amount
RequestQuote ==
    /\ Len(quote_calls) < MaxQuoteCalls
    /\ \E account \in Accounts, aptos_address \in AptosAddresses, amount \in Amounts :
          quote_calls' = Append(quote_calls, QuoteCall(account, aptos_address, amount))
    /\ UNCHANGED <<config, pc, i, locals, call, max_gas_amount, chain,
                   evm_sent, aptos_sent, hist>>

QuoteNext == RequestQuote

QuoteSpec == QuoteInit /\ [][QuoteNext]_vars

QuoteIndexes == 1..Len(quote_calls)

\* C19 as stated: two quote requests with the same destination address
\* carry identical arguments
C19_DestinationDeterminesArgs ==
    \A a, b \in QuoteIndexes :
        quote_calls[a].aptos_address = quote_calls[b].aptos_address =>
            quote_calls[a].args = quote_calls[b].args

\* C19 (amended): the arguments of the quote call are the source account's
\* address with the zero address, and the adapter parameters packed from
\* the version 2, APTOS_GAS, APTOS_AIRDROP and the destination address; two
\* requests with the same source account and the same destination address
\* carry identical arguments whatever the amount.
C19_SourceAndDestinationDetermineArgs ==
    /\ \A a \in QuoteIndexes :
          /\ Len(quote_calls[a].args) = 2
          /\ quote_calls[a].args[1] = <<quote_calls[a].account, 0>>
          /\ quote_calls[a].args[2] =
                <<2, 10000, 520400, quote_calls[a].aptos_address>>
    /\ \A a, b \in QuoteIndexes :
          (/\ quote_calls[a].account = quote_calls[b].account
           /\ quote_calls[a].aptos_address = quote_calls[b].aptos_address) =>
              quote_calls[a].args = quote_calls[b].args

C19_Witness ==
    /\ Len(quote_calls) = 2
    /\ quote_calls[1].account = quote_calls[2].account
    /\ quote_calls[1].aptos_address = quote_calls[2].aptos_address
    /\ quote_calls[1].amount # quote_calls[2].amount

====
